---- MODULE Spec2Model ----
(***************************************************************************)
(* Model of the `structure` management command of dj-app-structure         *)
(* (app_structure/management/commands/structure.py).                       *)
(*                                                                         *)
(* The state is the content of the target directory base_dir = cwd/app_name*)
(* and, for each invocation of Command.handle, its position in the code    *)
(* and the events it has performed so far (filesystem calls and writes to  *)
(* stdout).  Paths are sequences of names relative to base_dir; <<>> is    *)
(* base_dir itself.                                                        *)
(***************************************************************************)
EXTENDS Integers, Sequences, FiniteSets, TLC

VARIABLES
    fs,        \* the filesystem under base_dir: path -> kind of entry
    app_name,  \* kwargs["app_name"]
    active,    \* the invocations of handle that are running
    pc,        \* per invocation: position in handle
    i,         \* per invocation: loop index (default_files, or the calls)
    trace,     \* per invocation: events of the current run, in order
    exc,       \* per invocation: the exception that ended the run, or ""
    before,    \* per invocation: fs when the current run of handle began
    prev       \* per invocation: how the previous run ended, "" if none

vars == <<fs, app_name, active, pc, i, trace, exc, before, prev>>

----------------------------------------------------------------------------
(* Bounds of the model *)

\* at most this many irregular pre-existing entries in the target directory
MaxPre == 1

\* concurrent runs start from a tree that lacks at most this many trailing
\* directories of the fixed tree
MaxMissing == 1

Procs == {"p1", "p2"}

AppNames == {"blog", "shop"}

----------------------------------------------------------------------------
(* Data compiled into the program *)

\* remove_default_files: default_files
default_files == <<"models.py", "admin.py", "tests.py", "views.py">>

\* handle: structure (a dict, iterated in insertion order)
structure ==
    << <<"admin", <<>> >>,
       <<"api", <<"exceptions", "filters", "orderings", "paginations",
                  "permissions", "schema", "routers", "serializers",
                  "throttlings", "views">> >>,
       <<"models", <<"helper">> >>,
       <<"repository", <<"manager", "queryset">> >>,
       <<"signals", <<>> >>,
       <<"tests", <<"models", "api", "admin">> >>,
       <<"validators", <<>> >> >>

\* handle: enums_path
enums_path == <<"models", "helper", "enums">>

\* create_folder_with_init: the name joined to path for init_path
init_name == "__init__.py"

\* create_folder_with_init: init_path
init_path(path) == path \o <<init_name>>

\* variant: the inner loop stops one subfolder short
FolderCalls_DropLast(item) ==
    << <<item[1]>> >>
        \o [k \in 1..(Len(item[2]) - 1) |-> <<item[1], item[2][k]>>]

\* variant: only the subfolders are passed to create_folder_with_init
FolderCalls_SubfoldersOnly(item) ==
    [k \in 1..Len(item[2]) |-> <<item[1], item[2][k]>>]

\* create_folder_structure: the paths it passes to create_folder_with_init for
\* one item of the table: the folder, then each of its subfolders
FolderCalls(item) ==
    << <<item[1]>> >> \o [k \in 1..Len(item[2]) |-> <<item[1], item[2][k]>>]

RECURSIVE StructureCalls(_, _)
StructureCalls(table, n) ==
    IF n > Len(table) THEN <<>>
    ELSE FolderCalls(table[n]) \o StructureCalls(table, n + 1)

\* create_folder_structure(base_dir, structure): its calls, in order
create_folder_structure == StructureCalls(structure, 1)

\* variant: the special case is handled before the table
Calls_EnumsFirst == <<enums_path>> \o create_folder_structure

\* handle: the calls of create_folder_with_init of one run, in order
Calls == create_folder_structure \o <<enums_path>>

----------------------------------------------------------------------------
(* The filesystem *)

Range(s) == {s[k] : k \in 1..Len(s)}

\* the directories that handle's data names: the folders and subfolders of
\* structure, and enums_path with its parents
Tree ==
    {<<structure[k][1]>> : k \in 1..Len(structure)}
        \cup UNION {{<<structure[k][1], structure[k][2][j]>> :
                        j \in 1..Len(structure[k][2])} : k \in 1..Len(structure)}
        \cup {SubSeq(enums_path, 1, n) : n \in 1..Len(enums_path)}

DefaultPaths == {<<default_files[k]>> : k \in 1..Len(default_files)}

\* entries that are neither default files nor part of the fixed tree
ExtraPaths == {<<"apps.py">>, <<"api", "views.py">>}

Paths == {<<>>} \cup Tree \cup {init_path(d) : d \in Tree}
            \cup DefaultPaths \cup ExtraPaths

OtherPaths == Paths \ DefaultPaths

\* "none": no entry; "dir": directory; "file0": empty regular file;
\* "file1": non-empty regular file; "link": dangling symbolic link
Kinds == {"none", "dir", "file0", "file1", "link"}

Parent(p) == SubSeq(p, 1, Len(p) - 1)

IsPrefix(p, q) == Len(p) <= Len(q) /\ SubSeq(q, 1, Len(p)) = p

\* os.path.exists: follows symbolic links, so a dangling link does not exist
exists(f, p) == f[p] \in {"dir", "file0", "file1"}

\* os.mkdir(p)
mkdir(f, p) ==
    IF f[p] # "none" THEN [fs |-> f, exc |-> "FileExistsError", made |-> <<>>]
    ELSE IF Len(p) > 0 /\ f[Parent(p)] \in {"file0", "file1"}
    THEN [fs |-> f, exc |-> "NotADirectoryError", made |-> <<>>]
    ELSE IF Len(p) > 0 /\ f[Parent(p)] # "dir"
    THEN [fs |-> f, exc |-> "FileNotFoundError", made |-> <<>>]
    ELSE [fs |-> [f EXCEPT ![p] = "dir"], exc |-> "", made |-> <<p>>]

\* variant: os.makedirs(p, exist_ok=True)
RECURSIVE makedirs_exist_ok(_, _)
makedirs_exist_ok(f, p) ==
    LET head == Parent(p)
        r == IF Len(p) > 0 /\ ~exists(f, head)
             THEN makedirs_exist_ok(f, head)
             ELSE [fs |-> f, exc |-> "", made |-> <<>>]
    IN  IF r.exc \notin {"", "FileExistsError"} THEN r
        ELSE LET m == mkdir(r.fs, p)
             IN  IF m.exc = "FileExistsError" /\ f[p] = "dir"
                 THEN [fs |-> r.fs, exc |-> "", made |-> r.made]
                 ELSE [fs |-> m.fs, exc |-> m.exc, made |-> r.made \o m.made]

\* os.makedirs(p) with exist_ok=False: creates the missing parents first (a
\* FileExistsError of that recursive call is swallowed), then the leaf
RECURSIVE makedirs(_, _)
makedirs(f, p) ==
    LET head == Parent(p)
        r == IF Len(p) > 0 /\ ~exists(f, head)
             THEN makedirs(f, head)
             ELSE [fs |-> f, exc |-> "", made |-> <<>>]
    IN  IF r.exc \notin {"", "FileExistsError"} THEN r
        ELSE LET m == mkdir(r.fs, p)
             IN  [fs |-> m.fs, exc |-> m.exc, made |-> r.made \o m.made]

\* open(p, "w") and close: creates the file, or truncates an existing one
open_w(f, p) ==
    IF f[Parent(p)] \in {"file0", "file1"}
    THEN [fs |-> f, exc |-> "NotADirectoryError"]
    ELSE IF f[Parent(p)] # "dir" THEN [fs |-> f, exc |-> "FileNotFoundError"]
    ELSE IF f[p] = "dir" THEN [fs |-> f, exc |-> "IsADirectoryError"]
    ELSE [fs |-> [f EXCEPT ![p] = "file0"], exc |-> ""]

\* variant: removes the files of that name in the subfolders as well
os_remove_deep(f, p) ==
    IF f[p] = "none" THEN [fs |-> f, exc |-> "FileNotFoundError"]
    ELSE IF f[p] = "dir" THEN [fs |-> f, exc |-> "IsADirectoryError"]
    ELSE [fs |-> [q \in Paths |->
                    IF Len(q) > 0 /\ q[Len(q)] = p[Len(p)] /\ f[q] # "dir"
                    THEN "none" ELSE f[q]],
          exc |-> ""]

\* os.remove(p): unlinks a file or a link, fails on a directory
os_remove(f, p) ==
    IF f[p] = "none" THEN [fs |-> f, exc |-> "FileNotFoundError"]
    ELSE IF f[p] = "dir" THEN [fs |-> f, exc |-> "IsADirectoryError"]
    ELSE [fs |-> [f EXCEPT ![p] = "none"], exc |-> ""]

----------------------------------------------------------------------------
(* Events of a run *)

Ev(ev, arg) == [ev |-> ev, style |-> "", msg |-> "", arg |-> arg]

\* self.stdout.write(self.style.<style>(f"<msg> {arg}"))
Write(style, msg, arg) == [ev |-> "write", style |-> style, msg |-> msg, arg |-> arg]

RECURSIVE MkdirEvents(_)
MkdirEvents(made) ==
    IF made = <<>> THEN <<>>
    ELSE <<Ev("mkdir", Head(made))>> \o MkdirEvents(Tail(made))

----------------------------------------------------------------------------
(* Initial content of the target *)

EmptyFS == [p \in Paths |-> "none"]

\* the paths of the fixed tree that may hold an entry beforehand
PrePaths ==
    {<<"admin">>, <<"api">>, <<"api", "exceptions">>, <<"api", "views">>,
     <<"models">>, <<"models", "helper">>, enums_path,
     <<"tests">>, <<"tests", "admin">>, <<"validators">>}

\* the default files as startapp leaves them: none of them, or all four
DefaultSets == {{}, DefaultPaths}

\* irregular pre-existing entries: "pkg" is a directory holding an empty
\* marker file
PreEntries ==
    (PrePaths \X {"dir", "pkg", "file1", "link"})
        \cup (DefaultPaths \X {"file1", "dir", "link"})
        \cup (ExtraPaths \X {"file1"})

Consistent(S) ==
    \A e1 \in S : \A e2 \in S :
        e1 # e2 =>
            /\ e1[1] # e2[1]
            /\ IsPrefix(e1[1], e2[1]) => e1[2] \in {"dir", "pkg"}

\* the target directory holding the regular default files D and the entries S
BuildFS(D, S) ==
    [p \in Paths |->
        IF \E e \in S : e[1] = p
        THEN LET e == CHOOSE e \in S : e[1] = p
             IN  IF e[2] = "pkg" THEN "dir" ELSE e[2]
        ELSE IF \E e \in S : e[2] = "pkg" /\ p = init_path(e[1]) THEN "file0"
        ELSE IF \E e \in S : IsPrefix(p, e[1]) THEN "dir"
        ELSE IF p = <<>> THEN "dir"
        ELSE IF p \in D THEN "file1"
        ELSE "none"]

RECURSIVE UpTo(_)
UpTo(k) ==
    IF k = 0 THEN {{}}
    ELSE UpTo(k - 1) \cup {S \cup {e} : S \in UpTo(k - 1), e \in PreEntries}

Scenarios == {S \in UpTo(MaxPre) : Consistent(S)}

\* the target as a directory, as a regular file, as a dangling link, or absent
InitialFS ==
    {BuildFS(D, S) : D \in DefaultSets, S \in Scenarios}
        \cup {[EmptyFS EXCEPT ![<<>>] = k] : k \in {"none", "file1", "link"}}

\* every entry lies in a directory
WellFormed(f) ==
    \A p \in Paths : (p # <<>> /\ f[p] # "none") => f[Parent(p)] = "dir"

----------------------------------------------------------------------------
(* Command.handle, one action per step *)

\* the target after an earlier run that was stopped before its last m calls
\* of create_folder_with_init, holding the regular default files D
PartialFS(D, m) ==
    [p \in Paths |->
        IF p = <<>> THEN "dir"
        ELSE IF p \in D THEN "file1"
        ELSE IF \E k \in 1..(Len(Calls) - m) : Calls[k] = p THEN "dir"
        ELSE IF \E k \in 1..(Len(Calls) - m) : init_path(Calls[k]) = p THEN "file0"
        ELSE "none"]

ConcurrentFS ==
    {PartialFS(D, m) : D \in DefaultSets, m \in 0..MaxMissing} \cup {EmptyFS}

InitWith(F, A) ==
    /\ fs \in F
    /\ app_name \in AppNames
    /\ active = A
    /\ pc = [p \in Procs |-> IF p \in active THEN "start" ELSE "idle"]
    /\ i = [p \in Procs |-> 1]
    /\ trace = [p \in Procs |-> <<>>]
    /\ exc = [p \in Procs |-> ""]
    /\ before = [p \in Procs |-> fs]
    /\ prev = [p \in Procs |-> ""]

\* one invocation of the command
Init == InitWith(InitialFS, {"p1"})

InitConc == InitWith(ConcurrentFS, Procs)

\* position after call number n of create_folder_with_init has returned
AfterCall(n) == IF n < Len(Calls) THEN <<"mk_check", n + 1>> ELSE <<"final", n>>

\* position after default file number n has been dealt with
AfterDefault(n) ==
    IF n < Len(default_files) THEN <<"rm_check", n + 1>> ELSE <<"mk_check", 1>>

Goto(p, pos) ==
    /\ pc' = [pc EXCEPT ![p] = pos[1]]
    /\ i' = [i EXCEPT ![p] = pos[2]]

Raise(p, e) ==
    /\ pc' = [pc EXCEPT ![p] = "raised"]
    /\ exc' = [exc EXCEPT ![p] = e]
    /\ i' = i

Emit(p, evs) == trace' = [trace EXCEPT ![p] = @ \o evs]

\* variant: no return after the error message
Handle_NoReturn(p) ==
    /\ pc[p] = "start"
    /\ before' = [before EXCEPT ![p] = fs]
    /\ IF ~exists(fs, <<>>)
       THEN Emit(p, <<Write("ERROR", "does not exist", <<app_name>>)>>)
       ELSE Emit(p, <<>>)
    /\ Goto(p, <<"rm_check", 1>>)
    /\ UNCHANGED <<fs, app_name, active, exc, prev>>

\* handle, lines 35-44: the target-exists check
Handle(p) ==
    /\ pc[p] = "start"
    /\ before' = [before EXCEPT ![p] = fs]
    /\ IF ~exists(fs, <<>>)
       THEN /\ Emit(p, <<Write("ERROR", "does not exist", <<app_name>>)>>)
            /\ Goto(p, <<"returned", 1>>)
       ELSE /\ Emit(p, <<>>)
            /\ Goto(p, <<"rm_check", 1>>)
    /\ UNCHANGED <<fs, app_name, active, exc, prev>>

\* remove_default_files, lines 85-87: the test of one default file
CheckDefault(p) ==
    /\ pc[p] = "rm_check"
    /\ IF exists(fs, <<default_files[i[p]]>>)
       THEN Goto(p, <<"rm_do", i[p]>>)
       ELSE Goto(p, AfterDefault(i[p]))
    /\ UNCHANGED <<fs, app_name, active, trace, exc, before, prev>>

\* remove_default_files, lines 88-89: os.remove and the warning
RemoveDefault(p) ==
    /\ pc[p] = "rm_do"
    /\ LET file_path == <<default_files[i[p]]>>
           r == os_remove(fs, file_path)
       IN  /\ fs' = r.fs
           /\ IF r.exc # ""
              THEN /\ Raise(p, r.exc)
                   /\ Emit(p, <<>>)
              ELSE /\ Emit(p, <<Ev("remove", file_path),
                                Write("WARNING", "Removed", file_path)>>)
                   /\ Goto(p, AfterDefault(i[p]))
                   /\ exc' = exc
    /\ UNCHANGED <<app_name, active, before, prev>>

\* variant: no existence test before os.makedirs
CheckPath_NoTest(p) ==
    /\ pc[p] = "mk_check"
    /\ Emit(p, <<Ev("call", Calls[i[p]])>>)
    /\ Goto(p, <<"mk_dirs", i[p]>>)
    /\ UNCHANGED <<fs, app_name, active, exc, before, prev>>

\* variant: an existing path gets its marker file all the same
CheckPath_Retro(p) ==
    /\ pc[p] = "mk_check"
    /\ Emit(p, <<Ev("call", Calls[i[p]])>>)
    /\ IF exists(fs, Calls[i[p]])
       THEN Goto(p, <<"mk_init", i[p]>>)
       ELSE Goto(p, <<"mk_dirs", i[p]>>)
    /\ UNCHANGED <<fs, app_name, active, exc, before, prev>>

\* create_folder_with_init, line 113: the call and its existence test
CheckPath(p) ==
    /\ pc[p] = "mk_check"
    /\ Emit(p, <<Ev("call", Calls[i[p]])>>)
    /\ IF exists(fs, Calls[i[p]])
       THEN Goto(p, AfterCall(i[p]))
       ELSE Goto(p, <<"mk_dirs", i[p]>>)
    /\ UNCHANGED <<fs, app_name, active, exc, before, prev>>

\* variant: a failure of os.makedirs is swallowed and the walk goes on
Makedirs_Swallow(p) ==
    /\ pc[p] = "mk_dirs"
    /\ LET r == makedirs(fs, Calls[i[p]])
       IN  /\ fs' = r.fs
           /\ Emit(p, MkdirEvents(r.made))
           /\ IF r.exc # ""
              THEN Goto(p, AfterCall(i[p]))
              ELSE Goto(p, <<"mk_init", i[p]>>)
           /\ exc' = exc
    /\ UNCHANGED <<app_name, active, before, prev>>

\* create_folder_with_init, line 114: os.makedirs(path)
Makedirs(p) ==
    /\ pc[p] = "mk_dirs"
    /\ LET r == makedirs(fs, Calls[i[p]])
       IN  /\ fs' = r.fs
           /\ Emit(p, MkdirEvents(r.made))
           /\ IF r.exc # ""
              THEN Raise(p, r.exc)
              ELSE /\ Goto(p, <<"mk_init", i[p]>>)
                   /\ exc' = exc
    /\ UNCHANGED <<app_name, active, before, prev>>

\* variant: the marker file is written without the "Created" message
OpenInit_Silent(p) ==
    /\ pc[p] = "mk_init"
    /\ LET path == Calls[i[p]]
           r == open_w(fs, init_path(path))
       IN  /\ fs' = r.fs
           /\ IF r.exc # ""
              THEN /\ Raise(p, r.exc)
                   /\ Emit(p, <<>>)
              ELSE /\ Emit(p, <<Ev("open", init_path(path))>>)
                   /\ Goto(p, AfterCall(i[p]))
                   /\ exc' = exc
    /\ UNCHANGED <<app_name, active, before, prev>>

\* create_folder_with_init, lines 115-118: the marker file and the message
OpenInit(p) ==
    /\ pc[p] = "mk_init"
    /\ LET path == Calls[i[p]]
           r == open_w(fs, init_path(path))
       IN  /\ fs' = r.fs
           /\ IF r.exc # ""
              THEN /\ Raise(p, r.exc)
                   /\ Emit(p, <<>>)
              ELSE /\ Emit(p, <<Ev("open", init_path(path)),
                                Write("SUCCESS", "Created", path)>>)
                   /\ Goto(p, AfterCall(i[p]))
                   /\ exc' = exc
    /\ UNCHANGED <<app_name, active, before, prev>>

\* handle, line 75: the overall success message
Finish(p) ==
    /\ pc[p] = "final"
    /\ Emit(p, <<Write("SUCCESS", "Structure created", <<app_name>>)>>)
    /\ Goto(p, <<"done", 1>>)
    /\ UNCHANGED <<fs, app_name, active, exc, before, prev>>

Ended(p) == pc[p] \in {"done", "returned", "raised"}

\* the command is invoked a second time, after the first run has ended
Rerun(p) ==
    /\ Ended(p)
    /\ prev[p] = ""
    /\ prev' = [prev EXCEPT ![p] = pc[p]]
    /\ pc' = [pc EXCEPT ![p] = "start"]
    /\ i' = [i EXCEPT ![p] = 1]
    /\ trace' = [trace EXCEPT ![p] = <<>>]
    /\ exc' = [exc EXCEPT ![p] = ""]
    /\ UNCHANGED <<fs, app_name, active, before>>

Next ==
    \/ \E p \in active : Handle(p)
    \/ \E p \in active : CheckDefault(p)
    \/ \E p \in active : RemoveDefault(p)
    \/ \E p \in active : CheckPath(p)
    \/ \E p \in active : Makedirs(p)
    \/ \E p \in active : OpenInit(p)
    \/ \E p \in active : Finish(p)
    \/ \E p \in active : Rerun(p)

Spec == Init /\ [][Next]_vars

\* two invocations of the command at the same time, on the same target
NextConc ==
    \/ \E p \in active : Handle(p)
    \/ \E p \in active : CheckDefault(p)
    \/ \E p \in active : RemoveDefault(p)
    \/ \E p \in active : CheckPath(p)
    \/ \E p \in active : Makedirs(p)
    \/ \E p \in active : OpenInit(p)
    \/ \E p \in active : Finish(p)

SpecConc == InitConc /\ [][NextConc]_vars

TypeOK ==
    /\ fs \in [Paths -> Kinds]
    /\ WellFormed(fs)
    /\ app_name \in AppNames
    /\ active \subseteq Procs
    /\ \A p \in Procs : i[p] \in 1..Len(Calls)
    /\ Range(Calls) \subseteq Tree

----------------------------------------------------------------------------
(* Vocabulary of the properties *)

Has(t, e) == \E k \in 1..Len(t) : t[k] = e

\* positions of the events of kind ev in t
At(t, ev) == {k \in 1..Len(t) : t[k].ev = ev}

\* positions of the messages msg in t
Said(t, msg) == {k \in 1..Len(t) : t[k].ev = "write" /\ t[k].msg = msg}

\* positions of the filesystem mutations in t
Mutations(t) == At(t, "remove") \cup At(t, "mkdir") \cup At(t, "open")

ErrorMessage == Write("ERROR", "does not exist", <<app_name>>)

OverallSuccess == Write("SUCCESS", "Structure created", <<app_name>>)

IsFile(k) == k \in {"file0", "file1"}

Args(t, K) == {t[k].arg : k \in K}

\* the file tree of the filesystem contract (spec, section 6)
FixedTree ==
    {<<"admin">>,
     <<"api">>, <<"api", "exceptions">>, <<"api", "filters">>,
     <<"api", "orderings">>, <<"api", "paginations">>,
     <<"api", "permissions">>, <<"api", "schema">>, <<"api", "routers">>,
     <<"api", "serializers">>, <<"api", "throttlings">>, <<"api", "views">>,
     <<"models">>, <<"models", "helper">>, <<"models", "helper", "enums">>,
     <<"repository">>, <<"repository", "manager">>,
     <<"repository", "queryset">>,
     <<"signals">>,
     <<"tests">>, <<"tests", "models">>, <<"tests", "api">>,
     <<"tests", "admin">>,
     <<"validators">>}

TopLevel == {d \in FixedTree : Len(d) = 1}

\* under the target: exactly the directories of the fixed tree, each holding
\* exactly one entry, an empty marker file
ExactTree(f, d, q) ==
    f[q] = IF q \in FixedTree THEN "dir"
           ELSE IF \E t \in FixedTree : q = init_path(t) THEN "file0"
           ELSE d[q]

Nothing == [q \in Paths |-> "none"]

----------------------------------------------------------------------------
(* C1 *)

\* C1 as stated: whatever an existing target directory contains beforehand,
\* a completed run leaves under it exactly the 24 directories of the fixed
\* tree, each with exactly one empty __init__.py, and no other entry.
C1_AnyContent ==
    \A p \in active :
        (pc[p] = "done" /\ before[p][<<>>] = "dir") =>
            \A q \in Paths \ {<<>>} : ExactTree(fs, Nothing, q)

\* the target is a directory in which none of the seven top-level folders
\* of the tree exists and every default-named entry is a regular file
C1_Fresh(f) ==
    /\ f[<<>>] = "dir"
    /\ \A d \in TopLevel : f[d] = "none"
    /\ \A d \in DefaultPaths : f[d] = "none" \/ IsFile(f[d])

\* what a run leaves of the entries that were there before it: all but the
\* default files
C1_Kept(f) == [q \in Paths |-> IF q \in DefaultPaths THEN "none" ELSE f[q]]

\* C1 amended: from a target directory holding none of the seven top-level
\* folders and only regular files under the default names, the run ends
\* normally and leaves exactly the 24 directories of the fixed tree, each
\* holding exactly one entry, an empty __init__.py; besides them only the
\* entries that were there before, less the default files.
C1_FreshTargetGetsExactTree ==
    \A p \in active :
        (Ended(p) /\ C1_Fresh(before[p])) =>
            /\ pc[p] = "done"
            /\ Cardinality(FixedTree) = 24
            /\ Cardinality(TopLevel) = 7
            /\ \A q \in Paths \ {<<>>} : ExactTree(fs, C1_Kept(before[p]), q)

C1_Witness ==
    /\ pc["p1"] = "done"
    /\ C1_Fresh(before["p1"])
    /\ before["p1"][<<"models.py">>] = "file1"
    /\ before["p1"][<<"apps.py">>] = "file1"
    /\ fs[<<"apps.py">>] = "file1"
    /\ fs[<<"api", "schema", init_name>>] = "file0"

----------------------------------------------------------------------------
(* C2 *)

\* C2: when the target path does not exist, the run mutates nothing (the
\* target itself stays absent), writes exactly one message, the error naming
\* the app, and returns normally.
C2_MissingTargetIsOnlyReported ==
    \A p \in active :
        (pc[p] # "start" /\ ~exists(before[p], <<>>)) =>
            /\ pc[p] = "returned"
            /\ exc[p] = ""
            /\ fs = before[p]
            /\ trace[p] = <<ErrorMessage>>

C2_Witness ==
    /\ pc["p1"] = "returned"
    /\ before["p1"][<<>>] = "none"
    /\ fs[<<>>] = "none"
    /\ trace["p1"] = <<Write("ERROR", "does not exist", <<"shop">>)>>

----------------------------------------------------------------------------
(* C3 *)

\* C3: a second run on a target that a first run scaffolded completely
\* creates nothing, removes nothing, writes no "Created" and no "Removed"
\* message, leaves the filesystem as the first run left it, and ends with
\* the single overall success message.
C3_SecondRunIsIdle ==
    \A p \in active :
        (prev[p] = "done" /\ pc[p] # "start") =>
            /\ fs = before[p]
            /\ Mutations(trace[p]) = {}
            /\ Said(trace[p], "Created") = {}
            /\ Said(trace[p], "Removed") = {}
            /\ pc[p] # "raised"
            /\ Ended(p) => (pc[p] = "done" /\ Has(trace[p], OverallSuccess)
                                /\ At(trace[p], "write") = {Len(trace[p])})

C3_Witness ==
    /\ prev["p1"] = "done"
    /\ pc["p1"] = "done"
    /\ Len(trace["p1"]) = Len(Calls) + 1
    /\ \A d \in FixedTree : fs[d] = "dir" /\ fs[init_path(d)] = "file0"

----------------------------------------------------------------------------
(* C4 *)

\* C4: the only entries a run deletes are models.py, admin.py, tests.py and
\* views.py directly in the target; every other entry that was there before
\* the run is still there, unchanged, and a default-named entry is either
\* deleted or left as it was.
C4_OnlyRootDefaultsRemoved ==
    \A p \in active :
        pc[p] # "start" =>
            /\ \A k \in At(trace[p], "remove") : trace[p][k].arg \in DefaultPaths
            /\ \A q \in OtherPaths :
                   before[p][q] # "none" => fs[q] = before[p][q]
            /\ \A q \in DefaultPaths : fs[q] \in {before[p][q], "none"}

C4_Witness ==
    /\ pc["p1"] = "done"
    /\ before["p1"][<<"views.py">>] = "file1"
    /\ before["p1"][<<"api", "views.py">>] = "file1"
    /\ fs[<<"views.py">>] = "none"
    /\ fs[<<"api", "views.py">>] = "file1"
    /\ fs[<<"api", "views">>] = "dir"

----------------------------------------------------------------------------
(* C5 *)

\* C5: a path of the fixed tree that holds an entry before the run (a
\* directory, a file, a link) is not touched by it: the entry stays what it
\* was, no marker file is added in it, no "Created" message names it.
C5_ExistingPathsUntouched ==
    \A p \in active :
        pc[p] # "start" =>
            LET t == trace[p]
                made == Args(t, At(t, "mkdir"))
                opened == Args(t, At(t, "open"))
                reported == Args(t, Said(t, "Created"))
            IN  \A d \in Tree :
                    before[p][d] # "none" =>
                        /\ fs[d] = before[p][d]
                        /\ fs[init_path(d)] = before[p][init_path(d)]
                        /\ d \notin made
                        /\ init_path(d) \notin opened
                        /\ d \notin reported

C5_Witness ==
    /\ pc["p1"] = "done"
    /\ before["p1"][<<"admin">>] = "dir"
    /\ before["p1"][<<"admin", init_name>>] = "none"
    /\ fs[<<"admin", init_name>>] = "none"
    /\ fs[<<"api", init_name>>] = "file0"

----------------------------------------------------------------------------
(* C6 *)

Styled(t, style) == {k \in 1..Len(t) : t[k].ev = "write" /\ t[k].style = style}

\* C6: in a run that completes on an existing target, the warnings are one
\* per default file that existed and was removed, each naming it; the
\* "Created" successes are one per directory of the tree that did not exist
\* and was created, each naming it; there is exactly one overall success,
\* naming the app, and no other message.  On an empty target: 0, 24 and 1.
C6_MessageCounts ==
    \A p \in active :
        pc[p] = "done" =>
            LET t == trace[p]
                removed == {d \in DefaultPaths : exists(before[p], d)}
                made == {d \in FixedTree : before[p][d] = "none"}
            IN  /\ Styled(t, "WARNING") = Said(t, "Removed")
                /\ Cardinality(Said(t, "Removed")) = Cardinality(removed)
                /\ Args(t, Said(t, "Removed")) = removed
                /\ Args(t, At(t, "remove")) = removed
                /\ Styled(t, "SUCCESS") =
                       Said(t, "Created") \cup Said(t, "Structure created")
                /\ Cardinality(Said(t, "Created")) = Cardinality(made)
                /\ Args(t, Said(t, "Created")) = made
                /\ Args(t, At(t, "mkdir")) = made
                /\ Cardinality(Said(t, "Structure created")) = 1
                /\ Has(t, OverallSuccess)
                /\ Styled(t, "ERROR") = {}
                /\ (\A q \in Paths \ {<<>>} : before[p][q] = "none") =>
                       /\ Cardinality(Styled(t, "WARNING")) = 0
                       /\ Cardinality(Said(t, "Created")) = 24

C6_Witness ==
    /\ pc["p1"] = "done"
    /\ \A q \in Paths \ {<<>>} : before["p1"][q] = "none"
    /\ Cardinality(Said(trace["p1"], "Created")) = 24
    /\ Cardinality(Styled(trace["p1"], "SUCCESS")) = 25

C6_WitnessRemoved ==
    /\ pc["p1"] = "done"
    /\ Cardinality(Styled(trace["p1"], "WARNING")) = 4
    /\ Cardinality(Said(trace["p1"], "Created")) = 23

----------------------------------------------------------------------------
(* C7 *)

\* the run was ended by a failure inside create_folder_with_init
FailedCreating(p) == pc[p] = "raised" /\ At(trace[p], "call") # {}

\* C7 as stated: when creating one entry of the table fails, the remaining
\* entries of the table are still attempted.
C7_FailureDoesNotStopTheWalk ==
    \A p \in active :
        FailedCreating(p) =>
            \A k \in 1..Len(create_folder_structure) :
                Has(trace[p], Ev("call", create_folder_structure[k]))

\* C7 amended: an entry is attempted only once the entry before it exists;
\* when creating an entry fails the exception ends the run there: no later
\* entry is attempted and no overall success message is written, and what
\* the run had created before is still there.
C7_FailureEndsTheRun ==
    \A p \in active :
        LET t == trace[p]
        IN  /\ \A k \in At(t, "call") : k < Len(t) => exists(fs, t[k].arg)
            /\ FailedCreating(p) =>
                   /\ exc[p] # ""
                   /\ t[Len(t)] = Ev("call", Calls[i[p]])
                   /\ Args(t, At(t, "call")) = {Calls[k] : k \in 1..i[p]}
                   /\ ~Has(t, OverallSuccess)
                   /\ \A k \in At(t, "mkdir") : fs[t[k].arg] = "dir"
                   /\ \A k \in At(t, "open") : fs[t[k].arg] = "file0"

C7_Witness ==
    /\ FailedCreating("p1")
    /\ before["p1"][<<"api">>] = "file1"
    /\ before["p1"][<<"admin">>] = "none"
    /\ fs[<<"admin">>] = "dir"
    /\ fs[<<"admin", init_name>>] = "file0"
    /\ exc["p1"] = "NotADirectoryError"
    /\ Calls[i["p1"]] = <<"api", "exceptions">>
    /\ fs[<<"models">>] = "none"

----------------------------------------------------------------------------
(* C8 *)

KeyIndex(folder) == CHOOSE k \in 1..Len(structure) : structure[k][1] = folder

SubIndex(folder, sub) ==
    CHOOSE j \in 1..Len(structure[KeyIndex(folder)][2]) :
        structure[KeyIndex(folder)][2][j] = sub

\* place of a directory in the order of the table: by key, the folder before
\* its subfolders, these in their order; models/helper/enums after the table
Rank(d) ==
    IF Len(d) = 1 THEN <<KeyIndex(d[1]), 0>>
    ELSE IF Len(d) = 2 THEN <<KeyIndex(d[1]), SubIndex(d[1], d[2])>>
    ELSE <<Len(structure) + 1, 0>>

Earlier(r1, r2) == r1[1] < r2[1] \/ (r1[1] = r2[1] /\ r1[2] < r2[2])

\* the number of directories that come before d in that order
Place == [d \in Tree |-> Cardinality({e \in Tree : Earlier(Rank(e), Rank(d))})]

IsCall(e) == e.ev = "call"

IsCreation(e) ==
    e.ev \in {"mkdir", "open"} \/ (e.ev = "write" /\ e.msg = "Created")

IsBuild(e) == IsCall(e) \/ IsCreation(e)

IsRemoval(e) == e.ev = "remove" \/ (e.ev = "write" /\ e.msg = "Removed")

IsReport(e) == e.ev = "write" /\ e.msg \in {"does not exist", "Structure created"}

\* the directory an event of create_folder_with_init is about
Subject(e) == IF e.ev = "open" THEN Parent(e.arg) ELSE e.arg

\* C8: a run is the linear sequence validate, remove defaults, build tree,
\* report.  Nothing is done when the target check fails; the events of a run
\* are its removals with their warnings, then its calls of
\* create_folder_with_init with what they create, then its report; the n-th
\* call is for the n-th directory in the order of the table (each folder
\* before its subfolders, models/helper/enums after the whole table), and
\* whatever is created follows the call for that very path, no other call in
\* between; the overall success message is the last event, written only by
\* a run in which all 24 calls were made and nothing failed.
C8_LinearSequence ==
    \A p \in active :
        LET t == trace[p]
            called == SelectSeq(t, IsCall)
        IN  /\ ~exists(before[p], <<>>) => Mutations(t) = {}
            /\ t = SelectSeq(t, IsRemoval) \o SelectSeq(t, IsBuild)
                       \o SelectSeq(t, IsReport)
            /\ \A n \in 1..Len(called) : Place[called[n].arg] = n - 1
            /\ \A b \in 1..Len(t) :
                   IsCreation(t[b]) =>
                       /\ b > 1
                       /\ IsBuild(t[b - 1])
                       /\ Subject(t[b - 1]) = Subject(t[b])
            /\ \A k \in 1..Len(t) :
                   t[k] = OverallSuccess =>
                       /\ k = Len(t)
                       /\ pc[p] = "done"
                       /\ exc[p] = ""
                       /\ Len(called) = Cardinality(Tree)
            /\ pc[p] = "done" => (Len(t) > 0 /\ t[Len(t)] = OverallSuccess)

C8_Witness ==
    /\ pc["p1"] = "done"
    /\ Cardinality(At(trace["p1"], "remove")) = 4
    /\ Cardinality(At(trace["p1"], "mkdir")) = 23
    /\ before["p1"][<<"tests">>] = "dir"
    /\ trace["p1"][Len(trace["p1"])] = OverallSuccess

----------------------------------------------------------------------------
(* C9 *)

\* C9: every directory a run creates, intermediate parents that os.makedirs
\* adds included, gets an empty __init__.py: at any moment other than
\* between os.makedirs and the open that follows it, and so at the end of
\* every run, each directory the run has created holds the marker.
C9_CreatedDirectoriesAreMarked ==
    \A p \in active :
        \A k \in At(trace[p], "mkdir") :
            \/ pc[p] = "mk_init" /\ trace[p][k].arg = Calls[i[p]]
            \/ fs[init_path(trace[p][k].arg)] = "file0"

C9_Witness ==
    /\ pc["p1"] = "done"
    /\ before["p1"][<<"models">>] = "dir"
    /\ before["p1"][<<"models", "helper">>] = "none"
    /\ Has(trace["p1"], Ev("mkdir", <<"models", "helper">>))
    /\ Has(trace["p1"], Ev("mkdir", enums_path))
    /\ fs[init_path(<<"models", "helper">>)] = "file0"
    /\ fs[init_path(enums_path)] = "file0"

----------------------------------------------------------------------------
(* C10 *)

\* the invocation has passed the existence test for a path that has come
\* into existence since
LostRace(p) == pc[p] = "mk_dirs" /\ fs[Calls[i[p]]] # "none"

\* C10: without locking, of two runs on the same target both can pass the
\* existence test of create_folder_with_init for the same path before either
\* creates it; the creation attempt that comes second then fails with
\* FileExistsError and creates nothing, and that run has ended there: it does
\* nothing more and never writes its overall success message.
C10_LostRaceAbortsTheRun ==
    [][\A p \in active :
          /\ (LostRace(p) /\ pc'[p] # pc[p]) =>
                 /\ pc'[p] = "raised"
                 /\ exc'[p] = "FileExistsError"
                 /\ fs' = fs
          /\ pc[p] = "raised" =>
                 /\ pc'[p] = "raised"
                 /\ trace'[p] = trace[p]
                 /\ ~Has(trace[p], OverallSuccess)]_vars

C10_Witness ==
    /\ pc["p2"] = "raised"
    /\ exc["p2"] = "FileExistsError"
    /\ Calls[i["p2"]] = enums_path
    /\ Has(trace["p2"], Ev("call", enums_path))
    /\ ~Has(trace["p2"], Ev("mkdir", enums_path))
    /\ Has(trace["p1"], Ev("call", enums_path))
    /\ Has(trace["p1"], Ev("mkdir", enums_path))
    /\ pc["p1"] = "done"
    /\ ~Has(trace["p2"], OverallSuccess)

====
